---- MODULE Spec2Model ----
(***************************************************************************)
(* Frame synchronizer / decoder and trail recorder of the ESP32 x          *)
(* HLK-LD2450 sketch (src/mmwave_with_webserver/mmwave_with_webserver.ino).*)
(*                                                                         *)
(* One loop() cycle is pushBytes; parseFrames; sampleTrails; handleClient  *)
(* plus the CSV tick.  The environment is the radar's byte stream (bytes   *)
(* arrive at the UART in arbitrary chunks), the millisecond clock and the  *)
(* web client.                                                             *)
(***************************************************************************)
EXTENDS Integers, Sequences, FiniteSets, TLC

VARIABLES
    input,          \* the whole byte stream the radar sends in this run (fixed)
    stream,         \* bytes of it that have not reached the UART yet
    rx,             \* bytes waiting in Serial1 (arrived, not yet read)
    buf,            \* buf[0..blen-1]; blen is Len(buf)
    T,              \* Target T[3]
    tr,             \* Trail tr[3]
    framesSeen, framesOK, errs, webHits,
    lastTick, csvHeaderDone,
    now,            \* the value millis() returns
    pc,             \* the statement of loop() that runs next
    intakes         \* history: pushBytes calls that read at least one byte (saturating)

vars == <<input, stream, rx, buf, T, tr, framesSeen, framesOK, errs, webHits,
          lastTick, csvHeaderDone, now, pc, intakes>>

(***************************************************************************)
(* Program constants                                                       *)
(***************************************************************************)
BUF_SIZE == 128
FRAME_LEN == 30
KEEP_LEN == 29
TRAIL_LEN == 100
SAMPLE_MS == 120
UI_MS == 100
HDR == <<170, 255, 3, 0>>
TAIL == <<85, 204>>
Slots == 0..2
U16 == 65536
HALF == 32768

(***************************************************************************)
(* Bounds of the model                                                     *)
(***************************************************************************)
MaxFrames == 5      \* longest run of back-to-back frames in a stream
MaxIntakes == 3     \* intakes counts 0, 1, 2, "MaxIntakes or more"
MaxNow == 120       \* the clock stops advancing here
MaxHits == 1        \* web requests served in a run

Min(a, b) == IF a < b THEN a ELSE b
Drop(s, n) == SubSeq(s, n + 1, Len(s))
Take(s, n) == SubSeq(s, 1, n)
\* s[i] with the C index i (from 0)
At(s, i) == s[i + 1]

(***************************************************************************)
(* Integer conversions.  The unsigned long counters and millis() are 32    *)
(* bits wide; every run of the model keeps them far below 2^32, so they    *)
(* are plain naturals here.  The 16-bit conversions keep their width.      *)
(***************************************************************************)
\* (int16_t)n on a two's complement target
ToInt16(n) == ((n + HALF) % U16) - HALF

le_u16(p) == (At(p, 0) + At(p, 1) * 256) % U16

\* w & 0x8000
HighBit(w) == (w \div HALF) % 2 = 1

DecodeX_Offset(xr) == ToInt16(xr - HALF)
DecodeX(xr) == IF HighBit(xr) THEN ToInt16(xr - HALF) ELSE ToInt16(-xr)

DecodeY_Signed(yr) == ToInt16(yr)
DecodeY(yr) == ToInt16(yr - HALF)

DecodeV_Signed(vr) == ToInt16(vr)
DecodeV(vr) == IF HighBit(vr) THEN ToInt16(-(vr - HALF)) ELSE ToInt16(vr)

NonZero_Decoded(xr, yr, vr) == ~(DecodeX(xr) = 0 /\ DecodeV(vr) = 0)
NonZero(xr, yr, vr) == ~(xr = 0 /\ yr = 0 /\ vr = 0)

\* int b = 4 + k*8: where sub-record k starts in the frame
SubOffset_NoHeader(k) == k * 8
SubOffset(k) == 4 + k * 8

\* &f[i]: the bytes of f from the C index i on
From(f, i) == Drop(f, i)

\* The raw words xr, yr, vr of sub-record k of frame f
RawX(f, k) == le_u16(From(f, SubOffset(k) + 0))
RawY(f, k) == le_u16(From(f, SubOffset(k) + 2))
RawV_Pad(f, k) == le_u16(From(f, SubOffset(k) + 6))
RawV(f, k) == le_u16(From(f, SubOffset(k) + 4))

\* The body of the for(k) loop of parseFrames: the new T[k]
DecodeSlot_NoStamp(f, k, t) ==
    [v    |-> NonZero(RawX(f, k), RawY(f, k), RawV(f, k)),
     x    |-> DecodeX(RawX(f, k)),
     y    |-> DecodeY(RawY(f, k)),
     vz   |-> DecodeV(RawV(f, k)),
     seen |-> 0]
DecodeSlot(f, k, t) ==
    [v    |-> NonZero(RawX(f, k), RawY(f, k), RawV(f, k)),
     x    |-> DecodeX(RawX(f, k)),
     y    |-> DecodeY(RawY(f, k)),
     vz   |-> DecodeV(RawV(f, k)),
     seen |-> t]

DecodeFrame_SlotZero(f, t) ==
    [k \in Slots |-> IF k = 0 THEN DecodeSlot(f, k, t) ELSE DecodeSlot([i \in 1..FRAME_LEN |-> 0], k, 0)]
DecodeFrame(f, t) == [k \in Slots |-> DecodeSlot(f, k, t)]

(***************************************************************************)
(* parseFrames                                                             *)
(***************************************************************************)
HeaderAt(b, i) ==
    /\ At(b, i) = HDR[1] /\ At(b, i + 1) = HDR[2]
    /\ At(b, i + 2) = HDR[3] /\ At(b, i + 3) = HDR[4]

\* The scan of line 44: the first i in 0..blen-30 with the header at i, or -1
FindHeader_AtZero(b) ==
    IF Len(b) >= FRAME_LEN /\ HeaderAt(b, 0) THEN 0 ELSE -1
FindHeader_Last(b) ==
    LET S == {i \in 0..(Len(b) - FRAME_LEN) : HeaderAt(b, i)}
    IN  IF S = {} THEN -1 ELSE CHOOSE i \in S : \A j \in S : j <= i
FindHeader(b) ==
    LET S == {i \in 0..(Len(b) - FRAME_LEN) : HeaderAt(b, i)}
    IN  IF S = {} THEN -1 ELSE CHOOSE i \in S : \A j \in S : i <= j

TailOK_First(f) == At(f, 28) = TAIL[1]
TailOK(f) == ~(At(f, 28) # TAIL[1] \/ At(f, 29) # TAIL[2])

\* int drop = blen-29: what goes when no header is found
DropCount_None(blen) == 0
DropCount_All(blen) == blen
DropCount(blen) == blen - KEEP_LEN

\* int take = h+30: what goes with an extracted frame
TakeLen_FrameOnly(h) == FRAME_LEN
TakeLen(h) == h + FRAME_LEN

\* errs++ for a frame whose tail is wrong
Rejected_Uncounted(st) == st
Rejected(st) == [st EXCEPT !.errs = @ + 1]

\* The decode of a frame whose tail is right, and framesOK++
Accepted(st, f, t) == [st EXCEPT !.T = DecodeFrame(f, t), !.framesOK = @ + 1]

\* The state parseFrames works on
ParseState == [buf |-> buf, T |-> T, framesSeen |-> framesSeen,
               framesOK |-> framesOK, errs |-> errs]

\* The for(;;) loop of parseFrames from state st, with millis() = t
RECURSIVE ParseLoop(_, _)
ParseLoop(st, t) ==
    IF Len(st.buf) < FRAME_LEN THEN st
    ELSE LET h == FindHeader(st.buf)
             blen == Len(st.buf)
         IN  IF h < 0
             THEN LET drop == DropCount(blen)
                  IN  IF drop > 0 THEN [st EXCEPT !.buf = Drop(st.buf, drop)] ELSE st
             ELSE IF h + FRAME_LEN > blen
             THEN IF h > 0 THEN [st EXCEPT !.buf = Drop(st.buf, h)] ELSE st
             ELSE LET f == SubSeq(st.buf, h + 1, h + FRAME_LEN)
                      take == TakeLen(h)
                      st1 == [st EXCEPT !.buf = Drop(st.buf, take),
                                        !.framesSeen = @ + 1]
                  IN  IF ~TailOK(f)
                      THEN ParseLoop(Rejected(st1), t)
                      ELSE ParseLoop(Accepted(st1, f, t), t)

(***************************************************************************)
(* pushBytes                                                               *)
(***************************************************************************)
\* How many bytes the while loop of pushBytes reads: it stops when Serial1
\* has none left or blen reaches sizeof(buf)
TakeCount_NoLimit(avail, blen) == avail
TakeCount(avail, blen) == IF blen < BUF_SIZE THEN Min(avail, BUF_SIZE - blen) ELSE 0

\* What stays in Serial1 when pushBytes has read n of the bytes waiting
Unread_Flushed(avail, n) == <<>>
Unread(avail, n) == Drop(avail, n)

\* buf[blen++] = byte, for each byte read
PushInto_Restart(b, bytes) == bytes
PushInto(b, bytes) == b \o bytes

(***************************************************************************)
(* The byte streams of the model                                           *)
(***************************************************************************)
Lo(w) == w % 256
Hi(w) == w \div 256
Words(x, y, v, p) == <<Lo(x), Hi(x), Lo(y), Hi(y), Lo(v), Hi(v), Lo(p), Hi(p)>>
FrameOf(r0, r1, r2, tail) == HDR \o r0 \o r1 \o r2 \o tail

\* The i-th frame of a stream: three distinct sub-records that tell frame i
\* from every other; slot 2 of an even frame is an absent target.
Payload(i, tail) ==
    FrameOf(Words(i, HALF + 100 * i, 10 + i, 0),
            Words(HALF + i, 200 * i, HALF + 20 + i, 0),
            IF i % 2 = 0 THEN Words(0, 0, 0, 0) ELSE Words(HALF, HALF + i, HALF, 0),
            tail)
V(i) == Payload(i, TAIL)

RECURSIVE ValidRun(_)
ValidRun(n) == IF n = 0 THEN <<>> ELSE ValidRun(n - 1) \o <<V(n)>>

RECURSIVE Flatten(_)
Flatten(ss) == IF ss = <<>> THEN <<>> ELSE Head(ss) \o Flatten(Tail(ss))

Fill(n, b) == [i \in 1..n |-> b]

BadTails == {<<85, 0>>, <<0, 204>>, <<204, 85>>, <<0, 0>>}

\* Garbage shorter than a frame: runs of the header's first byte at the
\* lengths of GarbageLens and, at the lengths of Marks, zeros, a whole header
\* at the start or at the end, and a header cut short at the end
GarbageLens == {1, 2, 3, 4, 5, 15, 28, KEEP_LEN}
Marks == {4, KEEP_LEN}
Garbage ==
    {Fill(n, 170) : n \in GarbageLens}
    \cup {Fill(n, 0) : n \in Marks}
    \cup {Fill(n - 4, 0) \o HDR : n \in {m \in Marks : m >= 4}}
    \cup {HDR \o Fill(n - 4, 85) : n \in {m \in Marks : m >= 4}}
    \cup {Fill(n - 3, 204) \o Take(HDR, 3) : n \in {m \in Marks : m >= 3}}

\* Four frames' length of noise without a header
LongGarbage == Fill(4 * FRAME_LEN, 0)

Streams ==
    {Flatten(ValidRun(n)) : n \in 1..MaxFrames}
    \cup {g \o V(1) : g \in Garbage}
    \cup {V(1) \o Payload(2, t) : t \in BadTails}
    \cup {V(1) \o Payload(2, <<0, 0>>) \o V(3), Payload(1, <<85, 0>>)}
    \cup {LongGarbage \o V(1)}

(***************************************************************************)
(* Initial state: the globals as the C++ start-up zero-initializes them    *)
(***************************************************************************)
T0 == [k \in Slots |-> [v |-> FALSE, x |-> 0, y |-> 0, vz |-> 0, seen |-> 0]]
\* An int16_t[TRAIL_LEN] array is kept as the function from the indices of
\* its non-zero entries to their values: the array { 0 } is <<>>.
ZeroArray == <<>>
ArrGet(a, i) == IF i \in DOMAIN a THEN a[i] ELSE 0
ArrSet(a, i, val) ==
    LET D == IF val = 0 THEN DOMAIN a \ {i} ELSE DOMAIN a \cup {i}
    IN  [j \in D |-> IF j = i THEN val ELSE a[j]]

Trail0 == [X |-> ZeroArray, Y |-> ZeroArray, head |-> 0, n |-> 0, last |-> 0]

InitGlobals ==
    /\ buf = <<>>
    /\ T = T0
    /\ tr = [k \in Slots |-> Trail0]
    /\ framesSeen = 0 /\ framesOK = 0 /\ errs = 0 /\ webHits = 0
    /\ lastTick = 0 /\ csvHeaderDone = FALSE
    /\ now = 0
    /\ pc = "push"
    /\ intakes = 0

Init ==
    /\ input \in Streams
    /\ stream = input
    /\ rx = <<>>
    /\ InitGlobals

(***************************************************************************)
(* Actions                                                                 *)
(***************************************************************************)
\* pushBytes(), with k more bytes of the stream having reached the UART
pushBytes ==
    /\ pc = "push"
    /\ \E k \in 0..Len(stream) :
        LET avail == rx \o Take(stream, k)
            n == TakeCount(Len(avail), Len(buf))
        IN  /\ buf' = PushInto(buf, Take(avail, n))
            /\ rx' = Unread(avail, n)
            /\ stream' = Drop(stream, k)
            /\ intakes' = IF n > 0 THEN Min(intakes + 1, MaxIntakes) ELSE intakes
    /\ pc' = "parse"
    /\ UNCHANGED <<input, T, tr, framesSeen, framesOK, errs, webHits,
                   lastTick, csvHeaderDone, now>>

parseFrames ==
    /\ pc = "parse"
    /\ LET st == ParseLoop(ParseState, now)
       IN  /\ buf' = st.buf
           /\ T' = st.T
           /\ framesSeen' = st.framesSeen
           /\ framesOK' = st.framesOK
           /\ errs' = st.errs
    /\ pc' = "sample"
    /\ UNCHANGED <<input, stream, rx, tr, webHits, lastTick, csvHeaderDone,
                   now, intakes>>

\* One iteration of the for(k) loop of sampleTrails
SampleOne_Strict(trail, tk, t) ==
    IF t - trail.last > SAMPLE_MS
    THEN [X    |-> ArrSet(trail.X, trail.head, tk.x),
          Y    |-> ArrSet(trail.Y, trail.head, tk.y),
          head |-> (trail.head + 1) % TRAIL_LEN,
          n    |-> IF trail.n < TRAIL_LEN THEN trail.n + 1 ELSE trail.n,
          last |-> t]
    ELSE trail
SampleOne_NoWrap(trail, tk, t) ==
    IF t - trail.last >= SAMPLE_MS
    THEN [X    |-> ArrSet(trail.X, trail.head, tk.x),
          Y    |-> ArrSet(trail.Y, trail.head, tk.y),
          head |-> IF trail.head + 1 < TRAIL_LEN THEN trail.head + 1 ELSE trail.head,
          n    |-> IF trail.n < TRAIL_LEN THEN trail.n + 1 ELSE trail.n,
          last |-> t]
    ELSE trail
SampleOne(trail, tk, t) ==
    IF t - trail.last >= SAMPLE_MS
    THEN [X    |-> ArrSet(trail.X, trail.head, tk.x),
          Y    |-> ArrSet(trail.Y, trail.head, tk.y),
          head |-> (trail.head + 1) % TRAIL_LEN,
          n    |-> IF trail.n < TRAIL_LEN THEN trail.n + 1 ELSE trail.n,
          last |-> t]
    ELSE trail

sampleTrails ==
    /\ pc = "sample"
    /\ tr' = [k \in Slots |-> SampleOne(tr[k], T[k], now)]
    /\ pc' = "serve"
    /\ UNCHANGED <<input, stream, rx, buf, T, framesSeen, framesOK, errs,
                   webHits, lastTick, csvHeaderDone, now, intakes>>

\* The trX / trY lists page() builds for one trail: entry j is <<X[idx], Y[idx]>>
\* with idx = (head + j) % TRAIL_LEN, for j = 0..n-1
PageTrail(trail) ==
    [j \in 1..trail.n |->
        <<ArrGet(trail.X, (trail.head + (j - 1)) % TRAIL_LEN),
          ArrGet(trail.Y, (trail.head + (j - 1)) % TRAIL_LEN)>>]

\* server.handleClient() and the CSV tick that end loop(); a pending request
\* runs page() or handleJSON(), which count the hit and read the state
handleClient ==
    /\ pc = "serve"
    /\ \E req \in {"none", "root", "json"} :
        /\ req # "none" => webHits < MaxHits
        /\ webHits' = IF req = "none" THEN webHits ELSE webHits + 1
    /\ IF now - lastTick >= UI_MS
       THEN lastTick' = now /\ csvHeaderDone' = TRUE
       ELSE UNCHANGED <<lastTick, csvHeaderDone>>
    /\ pc' = "push"
    /\ UNCHANGED <<input, stream, rx, buf, T, tr, framesSeen, framesOK, errs,
                   now, intakes>>

\* The millisecond clock advances.  pushBytes does not read the clock, so an
\* advance before it is the same as one after it.
Tick ==
    /\ pc # "push"
    /\ now + SAMPLE_MS <= MaxNow
    /\ now' = now + SAMPLE_MS
    /\ UNCHANGED <<input, stream, rx, buf, T, tr, framesSeen, framesOK, errs,
                   webHits, lastTick, csvHeaderDone, pc, intakes>>

Next == pushBytes \/ parseFrames \/ sampleTrails \/ handleClient \/ Tick

Spec == Init /\ [][Next]_vars

(***************************************************************************)
(* A single frame with every 16-bit raw word: the frame is already waiting *)
(* in Serial1 when loop() first runs.  Word w is the x of slot 0, the y of *)
(* slot 1 and the v of slot 2.                                             *)
(***************************************************************************)
RawWords == 0..(U16 - 1)
DecodeInput(w) ==
    FrameOf(Words(w, 0, 0, 0), Words(0, w, 0, 0), Words(HALF, U16 - 1 - w, w, 0), TAIL)

InitDecode ==
    /\ input \in {DecodeInput(w) : w \in RawWords}
    /\ stream = <<>>
    /\ rx = input
    /\ InitGlobals

NextDecode == pushBytes \/ parseFrames

SpecDecode == InitDecode /\ [][NextDecode]_vars

(***************************************************************************)
(* What the specification expects, written without the code's conversions  *)
(***************************************************************************)
WordAt(f, off) == f[off + 1] + 256 * f[off + 2]
ExpX(w) == IF w >= HALF THEN w - HALF ELSE -w
ExpY(w) == w - HALF
ExpV(w) == IF w >= HALF THEN -(w - HALF) ELSE w
ExpSlot(f, k) ==
    LET xr == WordAt(f, 4 + 8 * k)
        yr == WordAt(f, 4 + 8 * k + 2)
        vr == WordAt(f, 4 + 8 * k + 4)
    IN  [v |-> ~(xr = 0 /\ yr = 0 /\ vr = 0), x |-> ExpX(xr), y |-> ExpY(yr), vz |-> ExpV(vr)]
Values(tk) == [v |-> tk.v, x |-> tk.x, y |-> tk.y, vz |-> tk.vz]
\* The Target Table holds the decode of frame f
TableIs(f) == \A k \in Slots : Values(T[k]) = ExpSlot(f, k)

IsValidFrame(f) ==
    /\ Len(f) = FRAME_LEN
    /\ Take(f, 4) = HDR
    /\ Drop(f, FRAME_LEN - 2) = TAIL
IsBadTailFrame(f) ==
    /\ Len(f) = FRAME_LEN
    /\ Take(f, 4) = HDR
    /\ Drop(f, FRAME_LEN - 2) # TAIL

\* Every byte of the stream has been read, and parseFrames has run since
AllProcessed == stream = <<>> /\ rx = <<>> /\ pc # "parse"
\* The whole stream was available to, and read by, one pushBytes call, and
\* the pass after it has run
OneIntakeOnePass == stream = <<>> /\ intakes = 1 /\ pc = "sample"

(***************************************************************************)
(* C1: in every reachable state the intake buffer length is within         *)
(* 0..128, whatever the stream and however it is delivered.                *)
(***************************************************************************)
C1_BufferBounded == 0 <= Len(buf) /\ Len(buf) <= BUF_SIZE
\* the buffer is full, with more bytes still waiting in Serial1
C1_Witness == Len(buf) = BUF_SIZE /\ rx # <<>>

(***************************************************************************)
(* C2: from the initial state, one valid 30-byte frame fed in one intake   *)
(* and one synchronize pass give one Target Table update (the decode of    *)
(* that frame in all three slots), frames_accepted = frames_seen = 1,      *)
(* decode_errors = 0 and an empty buffer.                                  *)
(***************************************************************************)
C2_SingleFrame ==
    (IsValidFrame(input) /\ OneIntakeOnePass)
        => /\ TableIs(input)
           /\ framesOK = 1 /\ framesSeen = 1 /\ errs = 0
           /\ buf = <<>>
C2_Witness ==
    /\ IsValidFrame(input) /\ OneIntakeOnePass
    /\ framesOK = 1 /\ T[0].x = -1 /\ T[1].x = 1 /\ buf = <<>>

(***************************************************************************)
(* C3: a pass over a 30-byte frame with a correct header and a wrong tail  *)
(* (either byte) adds 1 to frames_seen and to decode_errors, leaves        *)
(* frames_accepted alone and leaves every field of the three Target Table  *)
(* slots as it was.                                                        *)
(***************************************************************************)
C3_BadTailStep ==
    (pc = "parse" /\ pc' = "sample" /\ IsBadTailFrame(buf))
        => /\ framesSeen' = framesSeen + 1
           /\ errs' = errs + 1
           /\ framesOK' = framesOK
           /\ T' = T
           /\ buf' = <<>>
\* C3: every step of the program satisfies the bad-tail rule above
C3_BadTail == [][C3_BadTailStep]_vars
\* a frame was accepted, then a frame with a wrong tail was counted and
\* dropped, and the table still holds the first frame
C3_Witness ==
    /\ \E t \in BadTails : input = V(1) \o Payload(2, t)
    /\ AllProcessed
    /\ framesSeen = 2 /\ errs = 1 /\ framesOK = 1
    /\ TableIs(V(1))

(***************************************************************************)
(* C4: N valid frames back to back, all available to one intake, then one  *)
(* synchronize pass.  As claimed, for every N >= 1: frames_accepted = N.   *)
(***************************************************************************)
IsRun(s) == \E n \in 1..MaxFrames : s = Flatten(ValidRun(n))
FramesIn(s) == Len(s) \div FRAME_LEN
C4_AnyN ==
    (IsRun(input) /\ OneIntakeOnePass)
        => framesOK = FramesIn(input)
\* C4 as amended: for every N from 1 to 4 (the frames that fit the 128-byte
\* buffer) the pass accepts N frames, sees N, counts no error, empties the
\* buffer and leaves the table holding the N-th frame.
C4_FramesThatFit ==
    (IsRun(input) /\ Len(input) <= BUF_SIZE /\ OneIntakeOnePass)
        => /\ framesOK = FramesIn(input)
           /\ framesSeen = FramesIn(input)
           /\ errs = 0
           /\ TableIs(V(FramesIn(input)))
           /\ buf = <<>>
C4_Witness ==
    /\ input = Flatten(ValidRun(4)) /\ OneIntakeOnePass
    /\ framesOK = 4 /\ TableIs(V(4))

(***************************************************************************)
(* C5: garbage g, 0 < |g| < 30, then a valid frame, fed into the empty     *)
(* buffer in one intake.  As claimed, for any byte values of g: the frame  *)
(* is located and decoded.                                                 *)
(***************************************************************************)
GarbageOf(s) == Take(s, Len(s) - FRAME_LEN)
IsGarbageThenFrame(s) ==
    /\ Len(s) > FRAME_LEN /\ Len(s) < 2 * FRAME_LEN
    /\ Drop(s, Len(s) - FRAME_LEN) = V(1)
HasHeader(g) == \E i \in 0..(Len(g) - 4) : SubSeq(g, i + 1, i + 4) = HDR
C5_AnyGarbage ==
    (IsGarbageThenFrame(input) /\ OneIntakeOnePass)
        => framesOK = 1 /\ TableIs(V(1))
\* C5 as amended: if the garbage holds no occurrence of the 4-byte header,
\* the trailing frame is located and decoded (frames_accepted = 1, the
\* table holds its values).
C5_HeaderFreeGarbage ==
    (IsGarbageThenFrame(input) /\ ~HasHeader(GarbageOf(input)) /\ OneIntakeOnePass)
        => /\ framesOK = 1 /\ framesSeen = 1 /\ errs = 0
           /\ TableIs(V(1))
           /\ buf = <<>>
\* 29 garbage bytes that end in a header cut short, then the frame
C5_Witness ==
    /\ IsGarbageThenFrame(input) /\ OneIntakeOnePass
    /\ Len(input) = KEEP_LEN + FRAME_LEN
    /\ SubSeq(input, KEEP_LEN - 2, KEEP_LEN) = Take(HDR, 3)
    /\ framesOK = 1 /\ TableIs(V(1))

(***************************************************************************)
(* C6: a valid frame split at any k, 0 < k < 30, over two intake calls     *)
(* gives exactly one accepted frame and the Target Table values and        *)
(* counters that one intake of all 30 bytes gives (those of C2).           *)
(***************************************************************************)
C6_SplitFrame ==
    (IsValidFrame(input) /\ intakes = 2 /\ AllProcessed)
        => /\ TableIs(input)
           /\ framesOK = 1 /\ framesSeen = 1 /\ errs = 0
           /\ buf = <<>>
C6_Witness ==
    /\ IsValidFrame(input) /\ intakes = 2 /\ AllProcessed
    /\ framesOK = 1 /\ TableIs(input)

(***************************************************************************)
(* C7 to C10 are about the decode of one accepted frame; they are checked  *)
(* under SpecDecode, where the frame's words run over all 16-bit values.   *)
(***************************************************************************)
Int16 == (0 - HALF)..(HALF - 1)
Decoded == pc = "sample" /\ framesOK = 1
XRaw(k) == WordAt(input, 4 + 8 * k)
YRaw(k) == WordAt(input, 4 + 8 * k + 2)
VRaw(k) == WordAt(input, 4 + 8 * k + 4)

(***************************************************************************)
(* C7: for every 16-bit x_raw, x = x_raw - 32768 (>= 0) if the high bit is *)
(* set and x = -x_raw (<= 0) otherwise; 0x8000 and 0x0000 give 0, 0x0005   *)
(* gives -5; the value fits int16 without wraparound.                      *)
(***************************************************************************)
C7_DecodeX ==
    Decoded => \A k \in Slots :
        /\ XRaw(k) >= HALF => (T[k].x = XRaw(k) - HALF /\ T[k].x >= 0)
        /\ XRaw(k) < HALF => (T[k].x = 0 - XRaw(k) /\ T[k].x <= 0)
        /\ XRaw(k) = 32768 => T[k].x = 0
        /\ XRaw(k) = 0 => T[k].x = 0
        /\ XRaw(k) = 5 => T[k].x = -5
        /\ T[k].x \in Int16
C7_Witness == Decoded /\ XRaw(0) = 5 /\ T[0].x = -5 /\ XRaw(2) = 32768 /\ T[2].x = 0

(***************************************************************************)
(* C8: for every 16-bit y_raw, read little-endian from sub-record bytes    *)
(* 2..3, y = y_raw - 32768 exactly, whatever the high bit, within          *)
(* [-32768, 32767] and without wraparound.                                 *)
(***************************************************************************)
C8_DecodeY ==
    Decoded => \A k \in Slots :
        /\ T[k].y = YRaw(k) - HALF
        /\ T[k].y \in Int16
\* a y_raw whose two bytes differ, below the mid-point
C8_Witness == Decoded /\ YRaw(1) = 258 /\ input[15] = 2 /\ input[16] = 1 /\ T[1].y = -32510

(***************************************************************************)
(* C9: for every 16-bit v_raw, v = -(v_raw - 32768) (<= 0) if the high bit *)
(* is set and v = v_raw (>= 0) otherwise; the value fits int16 without     *)
(* wraparound.                                                             *)
(***************************************************************************)
C9_DecodeV ==
    Decoded => \A k \in Slots :
        /\ VRaw(k) >= HALF => (T[k].vz = 0 - (VRaw(k) - HALF) /\ T[k].vz <= 0)
        /\ VRaw(k) < HALF => (T[k].vz = VRaw(k) /\ T[k].vz >= 0)
        /\ T[k].vz \in Int16
C9_Witness == Decoded /\ VRaw(2) = U16 - 1 /\ T[2].vz = -32767

(***************************************************************************)
(* C10: for every accepted frame and slot k, present is false exactly when *)
(* x_raw, y_raw and v_raw of that sub-record are all zero, and true for    *)
(* every other combination, also when the decoded x and v are 0.           *)
(***************************************************************************)
C10_Present ==
    Decoded => \A k \in Slots :
        T[k].v = ~(XRaw(k) = 0 /\ YRaw(k) = 0 /\ VRaw(k) = 0)
\* slot 0 is all zero and absent; slot 2 is present with x = 0 and v = 0
C10_Witness ==
    /\ Decoded
    /\ XRaw(0) = 0 /\ YRaw(0) = 0 /\ VRaw(0) = 0 /\ ~T[0].v
    /\ T[2].v /\ T[2].x = 0 /\ T[2].vz = 0


(***************************************************************************)
(* The trail recorder over a long run: the sensor sends a few frames, each *)
(* whole, at chosen moments, and every turn of loop() takes one sampling   *)
(* period, so that a trail fills and wraps.                                *)
(***************************************************************************)
MaxSamples == 102
MaxTrailFrames == 3
ArrivalTimes == {2 * SAMPLE_MS, TRAIL_LEN * SAMPLE_MS, (TRAIL_LEN + 1) * SAMPLE_MS}

\* The sensor's next c frames reach Serial1 while loop() is between turns
Arrive(c) ==
    /\ pc = "push"
    /\ rx = <<>>
    /\ rx' = Flatten([i \in 1..c |-> V(framesSeen + i)])
    /\ input' = input \o rx'
    /\ UNCHANGED <<stream, buf, T, tr, framesSeen, framesOK, errs, webHits,
                   lastTick, csvHeaderDone, now, pc, intakes>>

ArriveTrail ==
    /\ framesSeen < MaxTrailFrames
    /\ now \in ArrivalTimes
    /\ Arrive(1)

\* The clock between two turns of loop(): a turn takes one sampling period
TickTrail ==
    /\ pc = "push"
    /\ now > 0 => tr[0].last = now
    /\ now + SAMPLE_MS <= MaxSamples * SAMPLE_MS
    /\ now' = now + SAMPLE_MS
    /\ UNCHANGED <<input, stream, rx, buf, T, tr, framesSeen, framesOK, errs,
                   webHits, lastTick, csvHeaderDone, pc, intakes>>

InitTrail ==
    /\ input = <<>>
    /\ stream = <<>>
    /\ rx = <<>>
    /\ InitGlobals

NextTrail ==
    ArriveTrail \/ pushBytes \/ parseFrames \/ sampleTrails \/ handleClient \/ TickTrail

SpecTrail == InitTrail /\ [][NextTrail]_vars

\* The samples of a trail read from index (head - count) mod capacity on
ReadTrail(trail) ==
    [j \in 1..trail.n |->
        <<ArrGet(trail.X, (trail.head + TRAIL_LEN - trail.n + (j - 1)) % TRAIL_LEN),
          ArrGet(trail.Y, (trail.head + TRAIL_LEN - trail.n + (j - 1)) % TRAIL_LEN)>>]
\* What the most recent `capacity` samples are once one more is taken
Recent(samples, xy) ==
    IF Len(samples) < TRAIL_LEN THEN Append(samples, xy) ELSE Append(Tail(samples), xy)
\* sampleTrails has just taken a sample for slot k
Sampled(k) == pc = "sample" /\ pc' = "serve" /\ now - tr[k].last >= SAMPLE_MS

(***************************************************************************)
(* C11: every trail has count <= 100 and 0 <= head < 100 at all times, and *)
(* each sample makes the entries read from (head - count) mod 100 the      *)
(* previous ones plus the new sample, less the oldest once 100 are stored: *)
(* the read gives the most recent 100 samples, oldest first.               *)
(***************************************************************************)
C11_TrailShape ==
    \A k \in Slots :
        /\ tr[k].n \in 0..TRAIL_LEN
        /\ tr[k].head \in 0..(TRAIL_LEN - 1)
        /\ DOMAIN tr[k].X \subseteq 0..(TRAIL_LEN - 1)
        /\ DOMAIN tr[k].Y \subseteq 0..(TRAIL_LEN - 1)
C11_SampleStep ==
    \A k \in Slots :
        Sampled(k) => ReadTrail(tr'[k]) = Recent(ReadTrail(tr[k]), <<T[k].x, T[k].y>>)
\* C11: the trail stays in shape and every sample rotates it as described
C11_TrailRotates == [](C11_TrailShape) /\ [][C11_SampleStep]_vars
\* the 101st sample has replaced the first one: the oldest entry read is the
\* second sample ever taken, the newest is the 101st
C11_Witness ==
    /\ tr[0].n = TRAIL_LEN /\ tr[0].head = 1
    /\ ReadTrail(tr[0])[1] = <<-1, 100>>
    /\ ReadTrail(tr[0])[TRAIL_LEN - 1] = <<-1, 100>>
    /\ ReadTrail(tr[0])[TRAIL_LEN] = <<-2, 200>>
    /\ ArrGet(tr[0].X, 0) = -2


(***************************************************************************)
(* C12: whatever the count (0..100), the trX / trY lists page() builds for *)
(* a slot are that slot's `count` most recent samples, oldest first: the   *)
(* entries at (head - count + j) mod 100 for j = 0..count-1.               *)
(***************************************************************************)
C12_PageSnapshot == \A k \in Slots : PageTrail(tr[k]) = ReadTrail(tr[k])

\* The first occurrence of the header anywhere in b, or -1
FirstHeaderIn(b) ==
    IF \E i \in 0..(Len(b) - 4) : SubSeq(b, i + 1, i + 4) = HDR
    THEN CHOOSE i \in 0..(Len(b) - 4) :
            /\ SubSeq(b, i + 1, i + 4) = HDR
            /\ \A j \in 0..(i - 1) : SubSeq(b, j + 1, j + 4) # HDR
    ELSE -1
\* The 30 bytes from offset h
FrameAt(b, h) == SubSeq(b, h + 1, h + FRAME_LEN)
\* A step of the program that is one call of parseFrames
ParsePass == pc = "parse" /\ pc' = "sample"
\* The buffer ends with the frame at its first header
EndsWithFrame(b) == FirstHeaderIn(b) >= 0 /\ Len(b) = FirstHeaderIn(b) + FRAME_LEN

(***************************************************************************)
(* C13: when the frame a pass extracts has the right tail, every slot k of *)
(* the Target Table becomes the decode of the sub-record at offset 4 + 8k  *)
(* (also when that decode is not present) with last_seen the current time, *)
(* and frames_accepted grows by exactly 1.                                 *)
(***************************************************************************)
C13_AcceptStep ==
    (ParsePass /\ EndsWithFrame(buf)
        /\ Drop(FrameAt(buf, FirstHeaderIn(buf)), FRAME_LEN - 2) = TAIL)
        => /\ \A k \in Slots :
                /\ Values(T'[k]) = ExpSlot(FrameAt(buf, FirstHeaderIn(buf)), k)
                /\ T'[k].seen = now
           /\ framesOK' = framesOK + 1
\* C13: every step of the program satisfies the acceptance rule above
C13_Accept == [][C13_AcceptStep]_vars
\* the second frame, whose slot 2 is all zero, was accepted at time 120 and
\* replaced a slot 2 that was present
C13_Witness ==
    /\ framesOK = 2 /\ TableIs(V(2))
    /\ ~T[2].v /\ T[2].x = 0 /\ T[2].y = -HALF /\ T[2].seen = SAMPLE_MS
    /\ T[0].v /\ T[0].x = -2 /\ T[0].seen = SAMPLE_MS


\* A step of the program that is one call of pushBytes
PushStep == pc = "push" /\ pc' = "parse"
\* The bytes Serial1 holds when that call starts, oldest first
Waiting == rx \o Take(stream, Len(stream) - Len(stream'))
\* They do not all fit in the buffer
Overflows == Len(buf) + Len(Waiting) > BUF_SIZE
LastBytes(s, n) == IF Len(s) > n THEN Drop(s, Len(s) - n) ELSE s

(***************************************************************************)
(* C14: when the waiting input would take the buffer past 128 bytes, the   *)
(* oldest buffered bytes are discarded to make room: after the intake the  *)
(* buffer holds the most recent 128 bytes of the stream.                   *)
(***************************************************************************)
C14_DiscardOldest ==
    [][(PushStep /\ Overflows) => buf' = LastBytes(buf \o Waiting, BUF_SIZE)]_vars
\* C14 as amended: when the waiting input would take the buffer past 128
\* bytes, nothing buffered is discarded: the intake stops at 128 bytes, the
\* buffered bytes stay where they were, and the buffer then holds the oldest
\* 128 bytes not yet consumed, not the most recent ones.
C14_KeepOldest ==
    [][(PushStep /\ Overflows)
        => /\ Len(buf') = BUF_SIZE
           /\ Take(buf', Len(buf)) = buf
           /\ buf' = Take(buf \o Waiting, BUF_SIZE)
           /\ buf' # LastBytes(buf \o Waiting, BUF_SIZE)]_vars
\* a second intake met 29 buffered bytes and more input than fits: the buffer
\* is the first 128 bytes of the stream and the rest has not entered
C14_Witness ==
    /\ pc = "parse" /\ intakes = 2 /\ framesSeen = 0
    /\ Len(input) > BUF_SIZE /\ buf = Take(input, BUF_SIZE)
    /\ rx # <<>> /\ stream = <<>>

(***************************************************************************)
(* C15: pushBytes on input that would overflow the 128 bytes stores the    *)
(* leading part that fits, leaves the buffered bytes unchanged, and drops  *)
(* the rest of that input for good: no later cycle can read it.            *)
(***************************************************************************)
C15_TailLost ==
    [][(PushStep /\ Overflows)
        => /\ buf' = buf \o Take(Waiting, BUF_SIZE - Len(buf))
           /\ rx' = <<>>]_vars
\* C15 as amended: pushBytes stores the leading part that fits and leaves
\* the buffered bytes unchanged; the rest is not dropped but stays unread in
\* the serial port, in order, and a later cycle reads it: a run of frames
\* longer than the buffer is decoded whole.
C15_TailWaits ==
    /\ [][(PushStep /\ Overflows)
            => /\ buf' = buf \o Take(Waiting, BUF_SIZE - Len(buf))
               /\ rx' = Drop(Waiting, BUF_SIZE - Len(buf))
               /\ rx' # <<>>]_vars
    /\ []((IsRun(input) /\ AllProcessed)
            => framesOK = FramesIn(input) /\ TableIs(V(FramesIn(input))))
\* 150 bytes were waiting at once: the first call read 128, the second the
\* other 22, and all five frames were accepted
C15_Witness ==
    /\ IsRun(input) /\ Len(input) > BUF_SIZE /\ AllProcessed
    /\ intakes = 2 /\ framesOK = FramesIn(input) /\ framesOK = MaxFrames


(***************************************************************************)
(* The trail recorder against the clock: frames arrive one or two at a     *)
(* time, and the clock moves by one sampling period or one millisecond     *)
(* less, so that a turn of loop() finds 119, 120 or more ms elapsed.       *)
(***************************************************************************)
MaxCadenceNow == 240
MaxCadenceFrames == 4
CadenceSteps == {SAMPLE_MS - 1, SAMPLE_MS}

ArriveCadence ==
    \E c \in 1..2 :
        /\ framesSeen + c <= MaxCadenceFrames
        /\ Arrive(c)

TickCadence ==
    /\ pc # "push"
    /\ \E d \in CadenceSteps :
        /\ now + d <= MaxCadenceNow
        /\ now' = now + d
    /\ UNCHANGED <<input, stream, rx, buf, T, tr, framesSeen, framesOK, errs,
                   webHits, lastTick, csvHeaderDone, pc, intakes>>

NextCadence ==
    ArriveCadence \/ pushBytes \/ parseFrames \/ sampleTrails \/ handleClient \/ TickCadence

SpecCadence == InitTrail /\ [][NextCadence]_vars

\* The (x, y) the n-th frame of the stream gives slot k
FrameXY(n, k) == IF n = 0 THEN <<0, 0>> ELSE <<ExpSlot(V(n), k).x, ExpSlot(V(n), k).y>>

(***************************************************************************)
(* C16: frames are decoded in stream order, so the Target Table holds the  *)
(* last accepted frame; a trail sample appends that frame's (x, y) and     *)
(* nothing else ever writes a trail: when two or more frames are accepted  *)
(* between two samples, the frames before the last appear in no trail.     *)
(***************************************************************************)
C16_LatestOnly ==
    /\ []((framesOK = framesSeen) /\ (framesOK >= 1 => TableIs(V(framesOK))))
    /\ [][\A k \in Slots :
            IF Sampled(k)
            THEN ReadTrail(tr'[k]) = Recent(ReadTrail(tr[k]), FrameXY(framesOK, k))
            ELSE tr'[k] = tr[k]]_vars
\* frame 1 was sampled, then frames 2 and 3 were accepted before the next
\* sample: the trail is frame 1, frame 3
C16_Witness ==
    /\ framesOK = 3 /\ tr[0].n = 2
    /\ ReadTrail(tr[0]) = << <<-1, 100>>, <<-3, 300>> >>
    /\ ReadTrail(tr[1]) = << <<1, 200 - HALF>>, <<3, 600 - HALF>> >>

(***************************************************************************)
(* C17: a run of the recorder with 120 ms or more since a slot's last      *)
(* sample writes the table's (x, y) of that slot at head, present or not,  *)
(* advances head, counts the sample and records the time; with less than   *)
(* 120 ms the slot's trail is left exactly as it was.                      *)
(***************************************************************************)
C17_CadenceStep ==
    (pc = "sample" /\ pc' = "serve")
        => \A k \in Slots :
            IF now - tr[k].last >= SAMPLE_MS
            THEN /\ \A i \in 0..(TRAIL_LEN - 1) :
                        /\ ArrGet(tr'[k].X, i) = IF i = tr[k].head THEN T[k].x ELSE ArrGet(tr[k].X, i)
                        /\ ArrGet(tr'[k].Y, i) = IF i = tr[k].head THEN T[k].y ELSE ArrGet(tr[k].Y, i)
                 /\ tr'[k].head = (tr[k].head + 1) % TRAIL_LEN
                 /\ tr'[k].n = Min(tr[k].n + 1, TRAIL_LEN)
                 /\ tr'[k].last = now
            ELSE tr'[k] = tr[k]
\* C17: every run of the recorder follows the cadence rule above
C17_Cadence == [][C17_CadenceStep]_vars
\* slot 2 was sampled at 120 ms and again at 240 ms, the second time while
\* not present: its (0, -32768) is in the trail
C17_Witness ==
    /\ pc = "serve" /\ now = 2 * SAMPLE_MS
    /\ tr[2].n = 2 /\ tr[2].last = now /\ ~T[2].v
    /\ ReadTrail(tr[2])[1] = <<0, 1>>
    /\ ReadTrail(tr[2])[2] = <<0, -HALF>>


\* s ends with t
IsSuffix(t, s) == Len(t) <= Len(s) /\ t = Drop(s, Len(s) - Len(t))
\* The buffer holds a whole frame from its first header on
HoldsFrame(b) == FirstHeaderIn(b) >= 0 /\ Len(b) >= FirstHeaderIn(b) + FRAME_LEN
\* What follows the frame at the first header
AfterFrame(b) == Drop(b, FirstHeaderIn(b) + FRAME_LEN)

(***************************************************************************)
(* C18: with the first header at offset h and h + 30 bytes or more in the  *)
(* buffer, a pass removes exactly h + 30 bytes from the front: the bytes   *)
(* that followed offset h + 29 are the new buffer content.                 *)
(***************************************************************************)
C18_RemovesOneFrame ==
    [][(ParsePass /\ HoldsFrame(buf)) => buf' = AfterFrame(buf)]_vars
\* C18 as amended: the pass extracts bytes h..h+29 as a frame, counted in
\* frames_seen whether or not its tail is valid, and removes h + 30 bytes;
\* it then scans the bytes that followed again, so the new buffer content
\* is a suffix of them and more frames may be counted.  When fewer than 30
\* bytes followed, they are the new buffer content exactly, one frame is
\* counted, and it is accepted or counted as an error by its tail.
C18_ExtractStep ==
    (ParsePass /\ HoldsFrame(buf))
        => /\ IsSuffix(buf', AfterFrame(buf))
           /\ framesSeen' >= framesSeen + 1
           /\ Len(AfterFrame(buf)) < FRAME_LEN
                => /\ buf' = AfterFrame(buf)
                   /\ framesSeen' = framesSeen + 1
                   /\ IF Drop(FrameAt(buf, FirstHeaderIn(buf)), FRAME_LEN - 2) = TAIL
                      THEN /\ framesOK' = framesOK + 1 /\ errs' = errs
                           /\ \A k \in Slots :
                                Values(T'[k]) = ExpSlot(FrameAt(buf, FirstHeaderIn(buf)), k)
                      ELSE /\ framesOK' = framesOK /\ errs' = errs + 1
                           /\ T' = T
C18_ExtractAndRescan == [][C18_ExtractStep]_vars
\* one intake brought the first frame and the start of the second: the pass
\* took the frame and left the start of the second as the buffer
C18_Witness ==
    /\ pc = "sample" /\ intakes = 1 /\ framesSeen = 1 /\ framesOK = 1
    /\ Len(buf) \in 5..KEEP_LEN
    /\ buf = Take(Drop(input, FRAME_LEN), Len(buf))
    /\ Take(buf, 4) = HDR

(***************************************************************************)
(* C19: with the first header at offset h and fewer than 30 bytes from h   *)
(* to the end of the buffer, a pass discards exactly the h bytes before    *)
(* the header and stops: the buffer then begins with the header.           *)
(***************************************************************************)
C19_KeepFromHeader ==
    [][(ParsePass /\ FirstHeaderIn(buf) >= 0
            /\ Len(buf) - FirstHeaderIn(buf) < FRAME_LEN)
        => /\ buf' = Drop(buf, FirstHeaderIn(buf))
           /\ framesSeen' = framesSeen]_vars

(***************************************************************************)
(* C20: a pass over 30 bytes or more that hold no header keeps the last 29 *)
(* bytes, in order, and nothing else changes; a header cut short at the    *)
(* end of the buffer survives, and the frame it starts is accepted once    *)
(* the rest has arrived.                                                   *)
(***************************************************************************)
C20_KeepStep ==
    (ParsePass /\ Len(buf) >= FRAME_LEN /\ FirstHeaderIn(buf) = -1)
        => /\ buf' = LastBytes(buf, KEEP_LEN)
           /\ Len(buf') <= KEEP_LEN
           /\ T' = T /\ framesSeen' = framesSeen
           /\ framesOK' = framesOK /\ errs' = errs
C20_KeepRecent ==
    /\ [][C20_KeepStep]_vars
    /\ []((input = LongGarbage \o V(1) /\ AllProcessed)
            => framesOK = 1 /\ TableIs(V(1)) /\ buf = <<>>)
\* 63 bytes of the noisy stream were in the buffer, ending with the first 3
\* bytes of the header: the pass kept 26 zeros and those 3 bytes
C20_Witness ==
    /\ pc = "sample" /\ framesSeen = 0
    /\ input = LongGarbage \o V(1)
    /\ buf = Fill(KEEP_LEN - 3, 0) \o Take(HDR, 3)
    /\ Len(stream) = FRAME_LEN - 3


(***************************************************************************)
(* The frames of a byte sequence, read from the left with no buffer: the   *)
(* 30 bytes at the first header, then the frames of what follows them.     *)
(***************************************************************************)
RECURSIVE FramesOf(_)
FramesOf(s) ==
    IF HoldsFrame(s)
    THEN <<FrameAt(s, FirstHeaderIn(s))>> \o FramesOf(AfterFrame(s))
    ELSE <<>>
GoodTail(f) == Drop(f, FRAME_LEN - 2) = TAIL
GoodOf(fs) == SelectSeq(fs, GoodTail)
BadCount(fs) == Len(fs) - Len(GoodOf(fs))
\* Nothing the pass can count or decode has changed
NothingCounted ==
    /\ framesSeen' = framesSeen /\ framesOK' = framesOK /\ errs' = errs
    /\ T' = T

(***************************************************************************)
(* C21: a pass counts nothing and updates no table entry only when it      *)
(* started with fewer than 30 bytes, and then it changes nothing; every    *)
(* pass started with 30 bytes or more adds to frames_seen.                 *)
(***************************************************************************)
C21_AlwaysExtracts ==
    [][(ParsePass /\ Len(buf) >= FRAME_LEN) => framesSeen' > framesSeen]_vars
\* C21 as amended: a pass started with fewer than 30 bytes changes nothing.
\* A pass started with 30 bytes or more extracts a frame (frames_seen
\* increases) exactly when a header occurrence has 30 bytes from it on;
\* otherwise it also counts nothing and updates no table entry, but it is
\* not without effect: it cuts the buffer to its last 29 bytes.
C21_ExtractStep ==
    ParsePass
        => /\ Len(buf) < FRAME_LEN => (buf' = buf /\ NothingCounted)
           /\ Len(buf) >= FRAME_LEN => (framesSeen' > framesSeen <=> HoldsFrame(buf))
           /\ (Len(buf) >= FRAME_LEN /\ ~HoldsFrame(buf))
                => (NothingCounted /\ Len(buf') = KEEP_LEN /\ buf' # buf)
C21_ExtractsIfFramed == [][C21_ExtractStep]_vars
\* the pass started with 100 bytes of noise, counted nothing and kept 29
C21_Witness ==
    /\ pc = "sample" /\ framesSeen = 0 /\ intakes = 1
    /\ input = LongGarbage \o V(1)
    /\ Len(input) - (Len(stream) + Len(rx)) = 100
    /\ buf = Fill(KEEP_LEN, 0)

(***************************************************************************)
(* C22: a pass that only discards noise, or only waits on a frame not yet  *)
(* whole, leaves the three counters and the Target Table as they were;     *)
(* decode_errors grows by one for each extracted frame with a wrong tail   *)
(* and in no other way.                                                    *)
(***************************************************************************)
C22_ErrorsStep ==
    /\ (ParsePass /\ ~HoldsFrame(buf)) => NothingCounted
    /\ ParsePass => errs' = errs + BadCount(FramesOf(buf))
    /\ ~ParsePass => errs' = errs
C22_OnlyBadTails == [][C22_ErrorsStep]_vars
\* noise was discarded, and the pass after it waits on the start of a frame:
\* nothing has been counted
C22_Witness ==
    /\ pc = "sample" /\ intakes >= 2
    /\ FirstHeaderIn(buf) > 0 /\ Len(buf) = KEEP_LEN
    /\ Len(input) > 2 * FRAME_LEN
    /\ framesSeen = 0 /\ framesOK = 0 /\ errs = 0 /\ T = T0

(***************************************************************************)
(* C23: when parseFrames has returned the buffer holds at most 29 bytes,   *)
(* so no header with its 30 bytes is left in it for a later cycle.         *)
(***************************************************************************)
C23_Exhausted == pc # "parse" => (Len(buf) <= KEEP_LEN /\ ~HoldsFrame(buf))
\* a pass took four frames out of a full buffer and left the 8 bytes of a
\* fifth
C23_Witness ==
    /\ pc = "sample" /\ framesSeen = 4 /\ Len(buf) = BUF_SIZE - 4 * FRAME_LEN
    /\ Take(buf, 4) = HDR /\ intakes = 1

(***************************************************************************)
(* C24: pushBytes reads at most 128 - blen bytes whatever is waiting, and  *)
(* a pass removes at least 30 bytes for each frame it extracts, so it      *)
(* extracts at most 4 frames; both calls end.                              *)
(***************************************************************************)
MaxPerPass == BUF_SIZE \div FRAME_LEN
C24_BoundedStep ==
    /\ PushStep
        => /\ Len(Waiting) - Len(rx') <= BUF_SIZE - Len(buf)
           /\ Len(buf') = Len(buf) + (Len(Waiting) - Len(rx'))
    /\ ParsePass
        => /\ framesSeen' - framesSeen <= MaxPerPass
           /\ (framesSeen' - framesSeen) * FRAME_LEN <= Len(buf) - Len(buf')
           /\ framesSeen' - framesSeen = Len(FramesOf(buf))
C24_Bounded == [][C24_BoundedStep]_vars
\* 150 bytes were waiting: pushBytes read 128 of them and the pass that
\* followed extracted 4 frames
C24_Witness ==
    /\ pc = "sample" /\ intakes = 1 /\ framesOK = MaxPerPass
    /\ Len(rx) = Len(input) - BUF_SIZE /\ Len(rx) > 0 /\ stream = <<>>


\* Every field of every slot comes from frame f, decoded in the past
WholeFrame(f) ==
    /\ TableIs(f)
    /\ \A k \in Slots : T[k].seen <= now

(***************************************************************************)
(* C25: page(), handleJSON and the CSV output run from loop() after a      *)
(* whole pass, so the Target Table they read is either still initial or    *)
(* has all fields of all three slots from one accepted frame.              *)
(***************************************************************************)
C25_ReadersSeeWholeFrames ==
    pc = "serve"
        => \/ framesOK = 0 /\ T = T0
           \/ framesOK >= 1 /\ \E n \in 1..MaxFrames : WholeFrame(V(n))
\* a reader runs after a pass that accepted frame 1, rejected frame 2 and
\* accepted frame 3 at time 120: it sees frame 3 in all slots
C25_Witness ==
    /\ pc = "serve" /\ framesOK = 2 /\ errs = 1
    /\ WholeFrame(V(3)) /\ T[2].seen = SAMPLE_MS /\ buf = <<>> /\ intakes = 1


(***************************************************************************)
(* A single frame waiting in Serial1 whose three sub-records end in        *)
(* arbitrary bytes.  Sub-record 1 has all three raw words zero.            *)
(***************************************************************************)
PadWords == {0, 1, HALF, U16 - 1}
PadValues == {0, 1, 255, 256, HALF, U16 - 1}
PadInput(w, p) ==
    FrameOf(Words(w, w, w, p[1]), Words(0, 0, 0, p[2]), Words(w, 0, HALF, p[3]), TAIL)

InitPad ==
    /\ input \in {PadInput(w, p) : w \in PadWords, p \in PadValues \X PadValues \X PadValues}
    /\ stream = <<>>
    /\ rx = input
    /\ InitGlobals

SpecPad == InitPad /\ [][NextDecode]_vars

\* Frame f with the last 2 bytes of each sub-record (offsets 10-11, 18-19,
\* 26-27) set to zero
PadOffsets == {10, 11, 18, 19, 26, 27}
ZeroPads(f) == [i \in 1..Len(f) |-> IF (i - 1) \in PadOffsets THEN 0 ELSE f[i]]

(***************************************************************************)
(* C26: the decode of a valid frame is that of the same frame with the     *)
(* last 2 bytes of each sub-record zeroed, so two valid frames that differ *)
(* only in those bytes give the same table values and the same counters.   *)
(***************************************************************************)
C26_PadIgnored ==
    (IsValidFrame(input) /\ pc = "sample")
        => /\ TableIs(ZeroPads(input))
           /\ \A k \in Slots : Values(T[k]) = Values(DecodeSlot(ZeroPads(input), k, 0))
           /\ framesSeen = 1 /\ framesOK = 1 /\ errs = 0
           /\ buf = <<>>
\* a frame whose sub-records end in FF FF, 01 00 and 00 80 was accepted;
\* its sub-record 1 is all zero but for those bytes, and slot 1 is absent
C26_Witness ==
    /\ pc = "sample" /\ framesOK = 1
    /\ input = PadInput(1, <<U16 - 1, 1, HALF>>)
    /\ input # ZeroPads(input)
    /\ ~T[1].v /\ T[0].v /\ T[0].x = -1


(***************************************************************************)
(* C27: in every state outside a pass frames_seen = frames_accepted +      *)
(* decode_errors, so frames_accepted <= frames_seen, and no step makes any *)
(* of the three counters smaller.                                          *)
(***************************************************************************)
C27_CountersAddUp ==
    /\ [](framesSeen = framesOK + errs /\ framesOK <= framesSeen)
    /\ [][framesSeen' >= framesSeen /\ framesOK' >= framesOK /\ errs' >= errs]_vars
\* two frames accepted and one rejected: 3 = 2 + 1
C27_Witness ==
    /\ pc = "push" /\ framesSeen = 3 /\ framesOK = 2 /\ errs = 1

\* A valid frame behind noise of any length that holds no header
IsNoiseThenFrame(s) ==
    /\ Len(s) > FRAME_LEN
    /\ Drop(s, Len(s) - FRAME_LEN) = V(1)
    /\ ~HasHeader(GarbageOf(s))

(***************************************************************************)
(* C28: for header-free noise of any length followed by one valid frame,   *)
(* however the bytes are spread over the cycles, once all bytes are read   *)
(* and processed the frame has been accepted exactly once: frames_accepted *)
(* = frames_seen = 1, decode_errors = 0, and the table holds its values.   *)
(***************************************************************************)
C28_FrameBehindNoise ==
    (AllProcessed /\ IsNoiseThenFrame(input))
        => /\ framesOK = 1 /\ framesSeen = 1 /\ errs = 0
           /\ TableIs(V(1))
           /\ buf = <<>>
\* 120 bytes of noise and the frame, read in three or more intakes
C28_Witness ==
    /\ AllProcessed /\ input = LongGarbage \o V(1)
    /\ intakes = MaxIntakes /\ framesOK = 1 /\ T[0].x = -1

(***************************************************************************)
(* C29: once the whole stream is read and processed, the three counters    *)
(* and the table values are those of the frames of the stream read from    *)
(* the left, whatever the split of the stream over the cycles and also     *)
(* when more than 128 bytes were waiting at once.                          *)
(***************************************************************************)
C29_SplitIndependent ==
    AllProcessed
        => LET fs == FramesOf(input)
               good == GoodOf(fs)
           IN  /\ framesSeen = Len(fs)
               /\ framesOK = Len(good)
               /\ errs = BadCount(fs)
               /\ IF good = <<>>
                  THEN \A k \in Slots : Values(T[k]) = Values(T0[k])
                  ELSE TableIs(good[Len(good)])
\* a stream longer than the buffer was waiting whole, and was read in two
\* intakes: five frames seen and accepted, as in any other split
C29_Witness ==
    /\ AllProcessed /\ pc = "sample" /\ intakes = 2
    /\ Len(input) > BUF_SIZE /\ framesSeen = MaxFrames /\ framesOK = MaxFrames
    /\ TableIs(V(MaxFrames))


\* The (x, y) of the newest sample of a trail
Newest(trail) == ReadTrail(trail)[trail.n]

(***************************************************************************)
(* C30: a slot whose sub-record in the accepted frame has three zero raw   *)
(* words is stored as not present with x = 0, y = -32768, v = 0, and each  *)
(* trail sample of that slot taken in that state records (0, -32768);      *)
(* before the first accepted frame a sample records (0, 0).                *)
(***************************************************************************)
C30_AbsentStep ==
    \A k \in Slots :
        (Sampled(k) /\ ~T[k].v)
            => Newest(tr'[k]) = IF framesOK = 0 THEN <<0, 0>> ELSE <<0, -HALF>>
====
